---- MODULE Spec2Model ----
(***************************************************************************)
(* A model of the ArgoCD CI-aware generator plugin: the getparams handler  *)
(* (app/main.py), the TinyDB-backed application store (app/state.py) and   *)
(* the GitHub check-run evaluation (app/github_utils.py).                  *)
(*                                                                         *)
(* Python strings are sequences of one-character strings, so that split,   *)
(* join, startswith, removeprefix and removesuffix are computed and not    *)
(* assumed.  Python's None is the value None below, which is no such       *)
(* sequence.                                                               *)
(***************************************************************************)
EXTENDS Integers, Sequences, FiniteSets, TLC

VARIABLES
    application_table,  \* DatabaseService._application_table: documents in doc_id order
    default_table,      \* the TinyDB default table DatabaseService.health_check probes
    last,               \* the last operation served: its input and what the caller observed
    memo,               \* history: under SpecReq, per identity key, the latest request
                        \* that took the checks-pass path; under SpecAsk, every call of
                        \* the CI checker that returned true
    inflight            \* the requests being served concurrently (SpecConc, SpecRace)

vars == <<application_table, default_table, last, memo, inflight>>

\* ---------------------------------------------------------------- bounds

\* The longest list of check runs GitHub reports for a commit.
MaxRuns == 2
\* The longest checks_regex list drawn for the check-run evaluation.
MaxPatterns == 2
\* The longest organization name drawn for the coordinate derivation.
MaxOrgLen == 2
\* The longest repository name drawn for the coordinate derivation.
MaxRepoLen == 5
\* The application table never holds more documents than this.
MaxRecords == 3
\* The number of requests served concurrently.
MaxInFlight == 2

\* ---------------------------------------------------------------- strings

None == <<"None">>

RECURSIVE SeqsUpTo(_, _)
\* All sequences over S of length at most n.
SeqsUpTo(S, n) ==
    IF n = 0 THEN {<<>>}
    ELSE LET shorter == SeqsUpTo(S, n - 1)
         IN  shorter \cup {Append(s, c) : s \in shorter, c \in S}

startswith(s, prefix) ==
    /\ Len(s) >= Len(prefix)
    /\ SubSeq(s, 1, Len(prefix)) = prefix

endswith(s, suffix) ==
    /\ Len(s) >= Len(suffix)
    /\ SubSeq(s, Len(s) - Len(suffix) + 1, Len(s)) = suffix

removeprefix(s, prefix) ==
    IF startswith(s, prefix) THEN SubSeq(s, Len(prefix) + 1, Len(s)) ELSE s

removesuffix(s, suffix) ==
    IF endswith(s, suffix) THEN SubSeq(s, 1, Len(s) - Len(suffix)) ELSE s

RECURSIVE split(_, _)
\* str.split(sep) for a one-character separator: always at least one piece.
split(s, sep) ==
    IF \A i \in 1..Len(s) : s[i] # sep THEN <<s>>
    ELSE LET i == CHOOSE j \in 1..Len(s) :
                      s[j] = sep /\ \A k \in 1..(j - 1) : s[k] # sep
         IN  <<SubSeq(s, 1, i - 1)>> \o split(SubSeq(s, i + 1, Len(s)), sep)

RECURSIVE join(_, _)
\* sep.join(parts)
join(sep, parts) ==
    IF Len(parts) = 0 THEN <<>>
    ELSE IF Len(parts) = 1 THEN parts[1]
    ELSE parts[1] \o sep \o join(sep, Tail(parts))

\* parts[-n] of a Python list
FromEnd(parts, n) == parts[Len(parts) - n + 1]

HTTPS_PREFIX ==
    <<"h","t","t","p","s",":","/","/","g","i","t","h","u","b",".","c","o","m","/">>

SSH_PREFIX ==
    <<"g","i","t","@","g","i","t","h","u","b",".","c","o","m",":">>

DOT_GIT == <<".","g","i","t">>

\* ---------------------------------------------------------------- requests

SCM == "scm"
PR == "pr"

\* The three generator configurations the tests post: scm, pr with an https
\* repoURL, pr with an ssh repoURL.
GENERATOR_CONFIGS == {"scm", "pr-https", "pr-ssh"}

https_url(org, repo) == HTTPS_PREFIX \o org \o <<"/">> \o repo \o DOT_GIT

ssh_url(org, repo) == SSH_PREFIX \o org \o <<"/">> \o repo \o DOT_GIT

\* The request body of POST /api/v1/getparams.execute (input.parameters flattened).
build_payload(config, asn, org, repo, branch, sha, checks_regex) ==
    [ applicationSetName  |-> asn,
      sourceGeneratorType |-> IF config = "scm" THEN SCM ELSE PR,
      checks_regex        |-> checks_regex,
      data |-> IF config = "scm"
               THEN [organization |-> org, repository |-> repo,
                     branch |-> branch, sha |-> sha]
               ELSE [repoURL  |-> IF config = "pr-https" THEN https_url(org, repo)
                                                         ELSE ssh_url(org, repo),
                     branch   |-> branch,
                     head_sha |-> sha] ]

\* An organization taken from the second-to-last piece whatever the URL style.
pr_organization_second_to_last(repoURL) == FromEnd(split(repoURL, "/"), 2)

\* organization and repository of a pr request's repoURL.
pr_organization(repoURL) ==
    IF startswith(repoURL, HTTPS_PREFIX)
    THEN FromEnd(split(repoURL, "/"), 2)
    ELSE split(removeprefix(repoURL, SSH_PREFIX), "/")[1]

pr_repository(repoURL) == removesuffix(FromEnd(split(repoURL, "/"), 1), DOT_GIT)

\* A fingerprint joined without the separator.
sha_check_fingerprint_unseparated(sha, checks_regex) == join(<<>>, <<sha>> \o checks_regex)

sha_check_fingerprint(sha, checks_regex) == join(<<"+">>, <<sha>> \o checks_regex)

\* What process_argocd_param derives from a request before it touches the store.
derive(request) ==
    LET d == request.data
        scm == request.sourceGeneratorType = SCM
        organization == IF scm THEN d.organization ELSE pr_organization(d.repoURL)
        repository == IF scm THEN d.repository ELSE pr_repository(d.repoURL)
        sha == IF scm THEN d.sha ELSE d.head_sha
    IN  [ application_set_name  |-> request.applicationSetName,
          checks_regex          |-> request.checks_regex,
          organization          |-> organization,
          repository            |-> repository,
          branch                |-> d.branch,
          sha                   |-> sha,
          state                 |-> d,
          sha_check_fingerprint |-> sha_check_fingerprint(sha, request.checks_regex) ]

\* The identity key the handler addresses in the store.
key_of(c) == <<c.application_set_name, c.repository, c.branch>>

\* The arguments the handler passes to GithubService.commit_passed_checks.
checker_call(c) ==
    [ checks_regex |-> c.checks_regex,
      repo         |-> c.organization \o <<"/">> \o c.repository,
      commit_sha   |-> c.sha ]

\* ---------------------------------------------------------------- inputs

\* Names as the requests carry them.
ApplicationSets == {<<"s">>}
Organizations == {<<"o">>}
Repositories == {<<"r">>, <<"q">>}
Branches == {<<"m">>}
Shas == {<<"a">>, <<"d">>}
ChecksRegexes == {<< <<"b">> >>, << <<"b">>, <<"c">> >>}

CheckRun(name, status, conclusion) ==
    [name |-> name, status |-> status, conclusion |-> conclusion]

\* What GitHub may report for a commit when the handler asks.
CommitCheckRuns ==
    { << CheckRun(<<"b">>, "completed", "success") >>,
      << CheckRun(<<"b">>, "completed", "success"),
         CheckRun(<<"c">>, "in_progress", "None") >>,
      << CheckRun(<<"b">>, "completed", "failure") >> }

Requests ==
    { build_payload(config, asn, org, repo, branch, sha, checks_regex) :
        config \in GENERATOR_CONFIGS, asn \in ApplicationSets, org \in Organizations,
        repo \in Repositories, branch \in Branches, sha \in Shas,
        checks_regex \in ChecksRegexes }

\* The requests of a polling caller (SpecReq): for one repository, two
\* organizations, two shas and check lists of which two join to the same
\* fingerprint; for that and the other repository, one pr request each.
PollOrganizations == {<<"o">>, <<"p">>}
PollChecksRegexes == ChecksRegexes \cup {<< <<"b","+","c">> >>}

PollRequests ==
    { build_payload("scm", <<"s">>, org, <<"r">>, <<"m">>, sha, checks_regex) :
        org \in PollOrganizations, sha \in Shas, checks_regex \in PollChecksRegexes }
    \cup { build_payload("pr-https", <<"s">>, <<"o">>, repo, <<"m">>, <<"a">>,
                         << <<"b">> >>) : repo \in Repositories }

\* The requests served concurrently (SpecConc, SpecRace): all for one identity key, of
\* two generators and two shas.
RaceRequests ==
    { build_payload("scm", <<"s">>, <<"o">>, <<"r">>, <<"m">>, <<"a">>, << <<"b">> >>),
      build_payload("pr-https", <<"s">>, <<"o">>, <<"r">>, <<"m">>, <<"a">>, << <<"b">> >>),
      build_payload("pr-https", <<"s">>, <<"o">>, <<"r">>, <<"m">>, <<"d">>, << <<"b">> >>) }

\* derive, tabulated once for the requests the specifications draw.
Derived == [request \in Requests \cup PollRequests \cup RaceRequests |-> derive(request)]

\* States and fingerprints written by direct calls of the store, as the tests do.
PreviousStates == {[this_is |-> <<"o","l","d">>]}
PreviousFingerprints == {None, sha_check_fingerprint(<<"a">>, << <<"b">> >>)}

HealthCheckIds == {<<"u","1">>}
RateLimits == {[raises |-> FALSE, remaining |-> 0],
               [raises |-> FALSE, remaining |-> 1],
               [raises |-> TRUE, remaining |-> 0]}

\* ---------------------------------------------------------------- CI checker

RECURSIVE re_match(_, _)
\* re.match(check_regex, name) for patterns made of literal characters, each
\* optionally followed by the quantifier "+": a match anchored at the start.
re_match(check_regex, name) ==
    IF Len(check_regex) = 0 THEN TRUE
    ELSE IF Len(name) = 0 \/ name[1] # check_regex[1] THEN FALSE
    ELSE IF Len(check_regex) >= 2 /\ check_regex[2] = "+"
         THEN \/ re_match(check_regex, Tail(name))
              \/ re_match(Tail(Tail(check_regex)), Tail(name))
         ELSE re_match(Tail(check_regex), Tail(name))

\* A test of the status alone.
succeeded_completed_only(check_run) == check_run.status = "completed"

succeeded(check_run) ==
    check_run.status = "completed" /\ check_run.conclusion = "success"

\* A line of the call's log: the event, the pattern, the check run's name.
log_line(event, check_regex, name) == <<event, check_regex, name>>

RECURSIVE validate_runs(_, _)
\* The inner loop over matched_runs: stops at the first run that did not succeed.
validate_runs(matched_runs, check_regex) ==
    IF Len(matched_runs) = 0 THEN [ok |-> TRUE, log |-> <<>>]
    ELSE LET check_run == Head(matched_runs)
             seen == log_line("matched", check_regex, check_run.name)
         IN  IF ~succeeded(check_run)
             THEN [ok |-> FALSE,
                   log |-> <<seen, log_line("failed", check_regex, check_run.name)>>]
             ELSE LET rest == validate_runs(Tail(matched_runs), check_regex)
                  IN  [ok |-> rest.ok, log |-> <<seen>> \o rest.log]

RECURSIVE commit_passed_checks(_, _)
\* GithubService.commit_passed_checks on a commit whose check runs are
\* check_runs, in the order GitHub lists them.  log is what the call logs:
\* which patterns it evaluated and which runs it inspected.
commit_passed_checks(checks_regex, check_runs) ==
    IF Len(checks_regex) = 0 THEN [result |-> TRUE, log |-> <<>>]
    ELSE LET check_regex == Head(checks_regex)
             matched_runs ==
                 SelectSeq(check_runs, LAMBDA i : re_match(check_regex, i.name))
             inner == validate_runs(matched_runs, check_regex)
             head == <<log_line("validating", check_regex, None)>>
                     \o (IF Len(matched_runs) = 0
                         THEN <<log_line("no-run", check_regex, None)>>
                         ELSE <<>>)
                     \o inner.log
         IN  IF ~inner.ok THEN [result |-> FALSE, log |-> head]
             ELSE LET rest == commit_passed_checks(Tail(checks_regex), check_runs)
                  IN  [ result |-> rest.result,
                        log |-> head \o <<log_line("passed", check_regex, None)>>
                                     \o rest.log ]


\* ---------------------------------------------------------------- store

\* table.search(Query().fragment({application_set_name, repo, branch}))
search(tbl, application_set_name, repo, branch) ==
    SelectSeq(tbl, LAMBDA doc : /\ doc.application_set_name = application_set_name
                                /\ doc.repo = repo
                                /\ doc.branch = branch)

\* table.insert(document): the document is appended; its doc_id is returned.
insert(tbl, document) ==
    [table |-> Append(tbl, document), doc_id |-> Len(tbl) + 1]

\* create_application without the lookup that refuses an existing key.
create_application_unchecked(tbl, application_set_name, repo, branch, state, last_known_good_sha) ==
    LET done == insert(tbl, [ application_set_name |-> application_set_name,
                              repo                 |-> repo,
                              branch               |-> branch,
                              state                |-> state,
                              last_known_good_sha  |-> last_known_good_sha ])
    IN  [error |-> "none", table |-> done.table, value |-> done.doc_id]

\* create_application that, on an existing key, stamps the caller's fingerprint
\* on the record it finds and reports success.
create_application_merging(tbl, application_set_name, repo, branch, state, last_known_good_sha) ==
    LET items == search(tbl, application_set_name, repo, branch)
        done == insert(tbl, [ application_set_name |-> application_set_name,
                              repo                 |-> repo,
                              branch               |-> branch,
                              state                |-> state,
                              last_known_good_sha  |-> last_known_good_sha ])
        hit(doc) == /\ doc.application_set_name = application_set_name
                    /\ doc.repo = repo
                    /\ doc.branch = branch
    IN  IF Len(items) > 0
        THEN [ error |-> "none",
               table |-> [i \in 1..Len(tbl) |->
                            IF hit(tbl[i])
                            THEN [tbl[i] EXCEPT !.last_known_good_sha = last_known_good_sha]
                            ELSE tbl[i]],
               value |-> 0 ]
        ELSE [error |-> "none", table |-> done.table, value |-> done.doc_id]

\* DatabaseService.create_application
create_application(tbl, application_set_name, repo, branch, state, last_known_good_sha) ==
    LET items == search(tbl, application_set_name, repo, branch)
        done == insert(tbl, [ application_set_name |-> application_set_name,
                              repo                 |-> repo,
                              branch               |-> branch,
                              state                |-> state,
                              last_known_good_sha  |-> last_known_good_sha ])
    IN  IF Len(items) > 0
        THEN [error |-> "AlreadyExists", table |-> tbl, value |-> 0]
        ELSE [error |-> "none", table |-> done.table, value |-> done.doc_id]

\* DatabaseService.get_application: value is <<>> for None, else <<document>>.
get_application(tbl, application_set_name, repo, branch) ==
    LET items == search(tbl, application_set_name, repo, branch)
    IN  IF Len(items) = 0 THEN [error |-> "none", value |-> <<>>]
        ELSE IF Len(items) > 1 THEN [error |-> "MultipleRecordsFound", value |-> <<>>]
        ELSE [error |-> "none", value |-> <<items[1]>>]

\* An update that replaces the state and keeps the old fingerprint.
update_state_only(tbl, state, last_known_good_sha, application_set_name, repo, branch) ==
    LET hit(doc) == /\ doc.application_set_name = application_set_name
                    /\ doc.repo = repo
                    /\ doc.branch = branch
    IN  [ table |-> [i \in 1..Len(tbl) |->
                        IF hit(tbl[i]) THEN [tbl[i] EXCEPT !.state = state] ELSE tbl[i]],
          doc_ids |-> SelectSeq([i \in 1..Len(tbl) |-> i], LAMBDA i : hit(tbl[i])) ]

\* table.update(fields, cond): every matching document gets the fields; the
\* doc_ids of the updated documents are returned.
update(tbl, state, last_known_good_sha, application_set_name, repo, branch) ==
    LET hit(doc) == /\ doc.application_set_name = application_set_name
                    /\ doc.repo = repo
                    /\ doc.branch = branch
    IN  [ table |-> [i \in 1..Len(tbl) |->
                        IF hit(tbl[i])
                        THEN [tbl[i] EXCEPT !.state = state,
                                            !.last_known_good_sha = last_known_good_sha]
                        ELSE tbl[i]],
          doc_ids |-> SelectSeq([i \in 1..Len(tbl) |-> i], LAMBDA i : hit(tbl[i])) ]

\* update_application that inserts the record when the key has none.
update_application_upsert(tbl, application_set_name, repo, branch, state, last_known_good_sha) ==
    LET done == update(tbl, state, last_known_good_sha,
                       application_set_name, repo, branch)
        added == insert(tbl, [ application_set_name |-> application_set_name,
                               repo                 |-> repo,
                               branch               |-> branch,
                               state                |-> state,
                               last_known_good_sha  |-> last_known_good_sha ])
    IN  IF Len(done.doc_ids) = 0
        THEN [error |-> "none", table |-> added.table, value |-> added.doc_id]
        ELSE IF Len(done.doc_ids) > 1
        THEN [error |-> "MultipleRecordsFound", table |-> done.table, value |-> 0]
        ELSE [error |-> "none", table |-> done.table, value |-> done.doc_ids[1]]

\* DatabaseService.update_application: the update is applied before the
\* result is counted.
update_application(tbl, application_set_name, repo, branch, state, last_known_good_sha) ==
    LET done == update(tbl, state, last_known_good_sha,
                       application_set_name, repo, branch)
    IN  IF Len(done.doc_ids) = 0
        THEN [error |-> "NotFound", table |-> done.table, value |-> 0]
        ELSE IF Len(done.doc_ids) > 1
        THEN [error |-> "MultipleRecordsFound", table |-> done.table, value |-> 0]
        ELSE [error |-> "none", table |-> done.table, value |-> done.doc_ids[1]]

\* db.remove(Query().id == health_check_id) on the default table.
remove(tbl, id) == SelectSeq(tbl, LAMBDA doc : doc.id # id)

\* DatabaseService.health_check: insert a probe document, remove it again.
db_health_check(tbl, health_check_id) ==
    LET done == insert(tbl, [type |-> "health_check", id |-> health_check_id])
    IN  [table |-> remove(done.table, health_check_id), healthy |-> TRUE]

\* GithubService.health_check: unhealthy when the rate limit is used up or
\* the call raises.
github_health_check(rate) ==
    IF rate.raises THEN FALSE ELSE rate.remaining >= 1

\* ---------------------------------------------------------------- handler

response(parameters) == [status_code |-> 200, parameters |-> parameters]

\* An exception that leaves the handler: the framework answers 500.
server_error(error) == [status_code |-> 500, parameters |-> <<>>, error |-> error]

\* A cache test that compares the stored fingerprint with the bare sha.
cache_hit_sha_only(application_data, c) ==
    /\ Len(application_data) = 1
    /\ application_data[1].last_known_good_sha = c.sha

\* A cache test that also wants the stored state to be the request's.
cache_hit_same_state(application_data, c) ==
    /\ Len(application_data) = 1
    /\ application_data[1].last_known_good_sha = c.sha_check_fingerprint
    /\ application_data[1].state = c.state

\* Lines 148-151: a record exists and its fingerprint is the request's.
cache_hit(application_data, c) ==
    /\ Len(application_data) = 1
    /\ application_data[1].last_known_good_sha = c.sha_check_fingerprint

\* A handler whose fallback answers with the request's state.
conclude_fallback_current(tbl, c, application_data, checks_result) ==
    IF checks_result
    THEN LET done == IF Len(application_data) = 0
                     THEN create_application(tbl, c.application_set_name, c.repository,
                                             c.branch, c.state, c.sha_check_fingerprint)
                     ELSE update_application(tbl, c.application_set_name, c.repository,
                                             c.branch, c.state, c.sha_check_fingerprint)
         IN  [ table |-> done.table,
               response |-> IF done.error = "none" THEN response(<<c.state>>)
                            ELSE server_error(done.error) ]
    ELSE [ table |-> tbl,
           response |-> IF Len(application_data) = 0 THEN response(<<>>)
                        ELSE response(<<c.state>>) ]

\* A handler that creates the record of a new key whatever the checks say.
conclude_create_unchecked(tbl, c, application_data, checks_result) ==
    IF checks_result \/ Len(application_data) = 0
    THEN LET done == IF Len(application_data) = 0
                     THEN create_application(tbl, c.application_set_name, c.repository,
                                             c.branch, c.state, c.sha_check_fingerprint)
                     ELSE update_application(tbl, c.application_set_name, c.repository,
                                             c.branch, c.state, c.sha_check_fingerprint)
         IN  [ table |-> done.table,
               response |-> IF done.error # "none" THEN server_error(done.error)
                            ELSE IF checks_result THEN response(<<c.state>>)
                            ELSE response(<<>>) ]
    ELSE [ table |-> tbl,
           response |-> response(<<application_data[1].state>>) ]

\* Lines 165-211: what the handler does once commit_passed_checks has returned.
conclude(tbl, c, application_data, checks_result) ==
    IF checks_result
    THEN LET done == IF Len(application_data) = 0
                     THEN create_application(tbl, c.application_set_name, c.repository,
                                             c.branch, c.state, c.sha_check_fingerprint)
                     ELSE update_application(tbl, c.application_set_name, c.repository,
                                             c.branch, c.state, c.sha_check_fingerprint)
         IN  [ table |-> done.table,
               response |-> IF done.error = "none" THEN response(<<c.state>>)
                            ELSE server_error(done.error) ]
    ELSE [ table |-> tbl,
           response |-> IF Len(application_data) = 0 THEN response(<<>>)
                        ELSE response(<<application_data[1].state>>) ]

\* A handler whose cache hit refreshes the stored state with the request's.
process_argocd_param_refreshing(tbl, request, check_runs) ==
    LET c == Derived[request]
        found == get_application(tbl, c.application_set_name, c.repository, c.branch)
        checks == commit_passed_checks(c.checks_regex, check_runs)
        done == conclude(tbl, c, found.value, checks.result)
        refreshed == update_application(tbl, c.application_set_name, c.repository,
                                        c.branch, c.state, c.sha_check_fingerprint)
    IN  IF found.error # "none"
        THEN [table |-> tbl, response |-> server_error(found.error),
              calls |-> <<>>, path |-> "error"]
        ELSE IF cache_hit(found.value, c)
        THEN [table |-> refreshed.table, response |-> response(<<c.state>>),
              calls |-> <<>>, path |-> "cache-hit"]
        ELSE [table |-> done.table, response |-> done.response,
              calls |-> <<checker_call(c) @@ [result |-> checks.result]>>,
              path |-> IF done.response.status_code # 200 THEN "error"
                       ELSE IF checks.result THEN "checks-pass" ELSE "checks-fail"]

\* process_argocd_param served without interruption, against a commit whose
\* check runs are check_runs.  calls lists the commit_passed_checks calls made.
process_argocd_param(tbl, request, check_runs) ==
    LET c == Derived[request]
        found == get_application(tbl, c.application_set_name, c.repository, c.branch)
        checks == commit_passed_checks(c.checks_regex, check_runs)
        done == conclude(tbl, c, found.value, checks.result)
    IN  IF found.error # "none"
        THEN [table |-> tbl, response |-> server_error(found.error),
              calls |-> <<>>, path |-> "error"]
        ELSE IF cache_hit(found.value, c)
        THEN [table |-> tbl, response |-> response(<<c.state>>),
              calls |-> <<>>, path |-> "cache-hit"]
        ELSE [table |-> done.table, response |-> done.response,
              calls |-> <<checker_call(c) @@ [result |-> checks.result]>>,
              path |-> IF done.response.status_code # 200 THEN "error"
                       ELSE IF checks.result THEN "checks-pass" ELSE "checks-fail"]


\* ---------------------------------------------------------------- actions

Init ==
    /\ application_table = <<>>
    /\ default_table = <<>>
    /\ last = [op |-> "init"]
    /\ memo = {}
    /\ inflight = <<>>

\* One getparams request served from start to end.
Serve(request, check_runs) ==
    \E out \in {process_argocd_param(application_table, request, check_runs)} :
        /\ Len(out.table) <= MaxRecords
        /\ application_table' = out.table
        /\ last' = [ op |-> "getparams", before |-> application_table,
                     request |-> request, response |-> out.response,
                     calls |-> out.calls, path |-> out.path, remembered |-> memo ]
        /\ UNCHANGED <<default_table, inflight>>

GetParams ==
    \E request \in Requests, check_runs \in CommitCheckRuns :
        /\ Serve(request, check_runs)
        /\ UNCHANGED memo

CreateApplication ==
    \E asn \in ApplicationSets, repo \in Repositories, branch \in Branches,
       state \in PreviousStates, fp \in PreviousFingerprints :
        \E out \in {create_application(application_table, asn, repo, branch, state, fp)} :
            /\ Len(out.table) <= MaxRecords
            /\ application_table' = out.table
            /\ last' = [ op |-> "create_application", before |-> application_table,
                         key |-> <<asn, repo, branch>>, state |-> state,
                         last_known_good_sha |-> fp, error |-> out.error ]
            /\ UNCHANGED <<default_table, memo, inflight>>

UpdateApplication ==
    \E asn \in ApplicationSets, repo \in Repositories, branch \in Branches,
       state \in PreviousStates, fp \in PreviousFingerprints :
        \E out \in {update_application(application_table, asn, repo, branch, state, fp)} :
            /\ application_table' = out.table
            /\ last' = [ op |-> "update_application", before |-> application_table,
                         key |-> <<asn, repo, branch>>, state |-> state,
                         last_known_good_sha |-> fp, error |-> out.error ]
            /\ UNCHANGED <<default_table, memo, inflight>>

GetApplication ==
    \E asn \in ApplicationSets, repo \in Repositories, branch \in Branches :
        \E out \in {get_application(application_table, asn, repo, branch)} :
            /\ last' = [ op |-> "get_application", before |-> application_table,
                         key |-> <<asn, repo, branch>>, error |-> out.error,
                         value |-> out.value ]
            /\ UNCHANGED <<application_table, default_table, memo, inflight>>

\* GET /health: both probes run; 200 only when both are healthy.
HealthCheck ==
    \E health_check_id \in HealthCheckIds, rate \in RateLimits :
        LET db == db_health_check(default_table, health_check_id)
            github_healthy == github_health_check(rate)
        IN  /\ default_table' = db.table
            /\ last' = [ op |-> "health", before |-> application_table,
                         database |-> db.healthy, github |-> github_healthy,
                         status_code |-> IF db.healthy /\ github_healthy
                                         THEN 200 ELSE 503 ]
            /\ UNCHANGED <<application_table, memo, inflight>>

\* What the history remembers after a request: the (sha, checks_regex) and
\* the state of the latest request of each key that took the checks-pass path,
\* whether a failing request of that key or a request of another key came
\* after it, and the states the cache hits of that key were answered with since.
remember(mem, request, path) ==
    LET c == Derived[request]
        kept == { IF m.key = key_of(c)
                  THEN [m EXCEPT !.failed_since = @ \/ path = "checks-fail",
                                 !.hit_states = IF path = "cache-hit"
                                                THEN @ \cup {c.state} ELSE @]
                  ELSE [m EXCEPT !.others_since = TRUE] : m \in mem }
    IN  IF path = "checks-pass"
        THEN {m \in kept : m.key # key_of(c)}
             \cup {[ key |-> key_of(c), sha |-> c.sha, checks_regex |-> c.checks_regex,
                     state |-> c.state, failed_since |-> FALSE, hit_states |-> {},
                     others_since |-> FALSE ]}
        ELSE kept

\* One request of a polling caller.
Poll ==
    \E request \in PollRequests, check_runs \in CommitCheckRuns :
        /\ Serve(request, check_runs)
        /\ memo' = remember(memo, request, last'.path)

NextReq == Poll

\* Nothing but getparams requests, one at a time, from an empty store.
SpecReq == Init /\ [][NextReq]_vars

\* What a request asks the CI checker about.
asked(request) ==
    LET c == Derived[request]
    IN  [ organization |-> c.organization, repository |-> c.repository,
          sha |-> c.sha, checks_regex |-> c.checks_regex ]

\* The history of the calls of the CI checker that returned true: calls is
\* what the request just served passed to commit_passed_checks, with the result.
witnessed(mem, request, calls) ==
    IF Len(calls) = 1 /\ calls[1].result THEN mem \cup {asked(request)} ELSE mem

\* The requests of that caller: one commit of one repository, asked for under
\* two organizations and with three lists of check patterns.
AskRequests ==
    { request \in PollRequests : /\ request.sourceGeneratorType = SCM
                                 /\ request.data.sha = <<"a">> }

\* A getparams request of a caller whose passed checks are all kept.
Ask ==
    \E request \in AskRequests, check_runs \in CommitCheckRuns :
        /\ Serve(request, check_runs)
        /\ memo' = witnessed(memo, request, last'.calls)

NextAsk == Ask

SpecAsk == Init /\ [][NextAsk]_vars

Next ==
    \/ GetParams
    \/ CreateApplication
    \/ UpdateApplication
    \/ GetApplication
    \/ HealthCheck

Spec == Init /\ [][Next]_vars


\* ---------------------------------------------------------------- concurrent requests

\* Requests served concurrently interleave between the handler's calls: the
\* lookup (with the cache test), the call of the CI checker, and the write.
Workers == 1..MaxInFlight

InitConc ==
    /\ application_table = <<>>
    /\ default_table = <<>>
    /\ last = [op |-> "init"]
    /\ memo = {}
    /\ inflight = [w \in Workers |-> [pc |-> "idle"]]

answered(request, resp) == [pc |-> "done", request |-> request, response |-> resp]

\* A worker that went through the checker keeps what it had looked up and
\* what the checker told it next to its answer.
concluded(request, resp, application_data, checks_result) ==
    [ pc |-> "done", request |-> request, response |-> resp,
      application_data |-> application_data, checks_result |-> checks_result ]

\* Lines 113-157: a worker takes a request, looks its key up and answers a cache hit.
Receive(w) ==
    /\ inflight[w].pc \in {"idle", "done"}
    /\ \E request \in RaceRequests :
        \E c \in {Derived[request]} :
        \E found \in {get_application(application_table, c.application_set_name,
                                      c.repository, c.branch)} :
            inflight' = [inflight EXCEPT ![w] =
                IF found.error # "none" THEN answered(request, server_error(found.error))
                ELSE IF cache_hit(found.value, c)
                THEN answered(request, response(<<c.state>>))
                ELSE [ pc |-> "checking", request |-> request,
                       application_data |-> found.value ]]
    /\ UNCHANGED <<application_table, default_table, last, memo>>

\* Lines 159-163: the worker's call of the CI checker returns.
Check(w) ==
    /\ inflight[w].pc = "checking"
    /\ \E check_runs \in CommitCheckRuns :
        inflight' = [inflight EXCEPT ![w] =
            [ pc |-> "concluding", request |-> inflight[w].request,
              application_data |-> inflight[w].application_data,
              checks_result |->
                  commit_passed_checks(Derived[inflight[w].request].checks_regex,
                                       check_runs).result ]]
    /\ UNCHANGED <<application_table, default_table, last, memo>>

\* Lines 165-211: the worker writes the store and answers, on what it looked up earlier.
Conclude(w) ==
    /\ inflight[w].pc = "concluding"
    /\ \E out \in {conclude(application_table, Derived[inflight[w].request],
                            inflight[w].application_data, inflight[w].checks_result)} :
        /\ Len(out.table) <= MaxRecords
        /\ application_table' = out.table
        /\ inflight' = [inflight EXCEPT ![w] =
               concluded(inflight[w].request, out.response,
                         inflight[w].application_data, inflight[w].checks_result)]
    /\ UNCHANGED <<default_table, last, memo>>

\* Another client of the store creates or updates the record of the contended key.
StoreCreate ==
    \E state \in PreviousStates, fp \in PreviousFingerprints :
        \E out \in {create_application(application_table, <<"s">>, <<"r">>, <<"m">>,
                                       state, fp)} :
            /\ Len(out.table) <= MaxRecords
            /\ application_table' = out.table
            /\ UNCHANGED <<default_table, last, memo, inflight>>

StoreUpdate ==
    \E state \in PreviousStates, fp \in PreviousFingerprints :
        /\ application_table' =
              update_application(application_table, <<"s">>, <<"r">>, <<"m">>,
                                 state, fp).table
        /\ UNCHANGED <<default_table, last, memo, inflight>>

\* GET /health served meanwhile: the probe document is inserted and removed.
Probe ==
    \E health_check_id \in HealthCheckIds :
        /\ default_table' = db_health_check(default_table, health_check_id).table
        /\ UNCHANGED <<application_table, last, memo, inflight>>

NextConc ==
    \/ \E w \in Workers : Receive(w)
    \/ \E w \in Workers : Check(w)
    \/ \E w \in Workers : Conclude(w)
    \/ StoreCreate
    \/ StoreUpdate
    \/ Probe

SpecConc == InitConc /\ [][NextConc]_vars

\* The identity keys of the documents in the application table.
StoredKeys ==
    { <<application_table[i].application_set_name, application_table[i].repo,
        application_table[i].branch>> : i \in 1..Len(application_table) }

\* C6: whatever the interleaving of requests and store calls, the application
\* table holds at most one record per identity key, and no lookup raises the
\* multiple-records error.
C6_Unique ==
    /\ \A i, j \in 1..Len(application_table) :
          ( /\ application_table[i].application_set_name =
                 application_table[j].application_set_name
            /\ application_table[i].repo = application_table[j].repo
            /\ application_table[i].branch = application_table[j].branch ) => i = j
    /\ \A key \in StoredKeys :
          get_application(application_table, key[1], key[2], key[3]).error = "none"
    /\ \A w \in DOMAIN inflight :
          inflight[w].pc = "done" => inflight[w].response.status_code = 200
                                     \/ inflight[w].response.error # "MultipleRecordsFound"

\* C6 happened in a race: two workers looked the same key up before either
\* wrote; one created the record, the other's create was refused.
C6_Witness ==
    /\ inflight[1].pc = "done"
    /\ inflight[1].response.status_code = 200
    /\ inflight[2].pc = "done"
    /\ inflight[2].response.status_code = 500
    /\ inflight[2].response.error = "AlreadyExists"
    /\ inflight[2].request # inflight[1].request
    /\ Len(application_table) = 1
    /\ application_table[1].state = inflight[1].request.data

\* ---------------------------------------------------------------- the create race

\* Each worker serves one request for the contended key, and the handler is the
\* store's only client: the store starts empty and nothing else writes it.
Arrive(w) ==
    /\ inflight[w].pc = "idle"
    /\ Receive(w)

NextRace ==
    \/ \E w \in Workers : Arrive(w)
    \/ \E w \in Workers : Check(w)
    \/ \E w \in Workers : Conclude(w)

SpecRace == InitConc /\ [][NextRace]_vars


\* ---------------------------------------------------------------- the coordinates alone

\* Organization and repository names: any characters GitHub names are made
\* of, the separator "/" not among them.
OrgChars == {"o", "-"}
RepoChars == {"r", ".", "g", "i", "t"}
OrgNames == SeqsUpTo(OrgChars, MaxOrgLen)
RepoNames == SeqsUpTo(RepoChars, MaxRepoLen)

\* The coordinates three payloads are about to be built from.
InitCoords ==
    /\ application_table = <<>>
    /\ default_table = <<>>
    /\ memo = {}
    /\ inflight = <<>>
    /\ last \in { [op |-> "coordinates", organization |-> org, repository |-> repo,
                   branch |-> branch, sha |-> <<"a">>] :
                  org \in OrgNames, repo \in RepoNames, branch \in Branches }

\* One payload per generator configuration, each put through the handler's derivation.
DeriveAll ==
    /\ last.op = "coordinates"
    /\ last' = [ op |-> "derive", organization |-> last.organization,
                 repository |-> last.repository, branch |-> last.branch,
                 sha |-> last.sha,
                 derived |-> [ config \in GENERATOR_CONFIGS |->
                     derive(build_payload(config, <<"s">>, last.organization,
                                          last.repository, last.branch, last.sha,
                                          << <<"b">>, <<"c">> >>)) ] ]
    /\ UNCHANGED <<application_table, default_table, memo, inflight>>

NextCoords == DeriveAll

SpecCoords == InitCoords /\ [][NextCoords]_vars

\* C10: the scm payload, the pr payload with the https URL and the pr payload
\* with the ssh URL of one (organization, repository, branch, sha) derive these
\* very coordinates, hence the same store key, the same fingerprint and the
\* same arguments of the CI checker.
C10_SameCoordinates ==
    last.op = "derive" =>
        \A config \in GENERATOR_CONFIGS :
            /\ last.derived[config].organization = last.organization
            /\ last.derived[config].repository = last.repository
            /\ last.derived[config].branch = last.branch
            /\ last.derived[config].sha = last.sha
            /\ key_of(last.derived[config]) = key_of(last.derived["scm"])
            /\ last.derived[config].sha_check_fingerprint =
                 last.derived["scm"].sha_check_fingerprint
            /\ checker_call(last.derived[config]) = checker_call(last.derived["scm"])
            /\ checker_call(last.derived[config]).repo =
                 last.organization \o <<"/">> \o last.repository

\* C10 happened for a repository whose name itself ends in ".git" and a
\* two-character organization.
C10_Witness ==
    /\ last.op = "derive"
    /\ last.repository = <<"r", ".", "g", "i", "t">>
    /\ last.organization = <<"o", "-">>
    /\ last.derived["pr-ssh"].state.repoURL # last.derived["pr-https"].state.repoURL
    /\ last.derived["pr-ssh"].repository = last.derived["pr-https"].repository

\* ---------------------------------------------------------------- the CI checker alone

Patterns == {<<"b">>, <<"c">>, <<"b","+","c">>}
PatternLists == SeqsUpTo(Patterns, MaxPatterns)

RunNames == {<<"b">>, <<"c">>, <<"b","c">>}
RunOutcomes == {<<"completed", "success">>, <<"completed", "failure">>,
                <<"in_progress", "None">>}
CheckRuns == {CheckRun(name, o[1], o[2]) : name \in RunNames, o \in RunOutcomes}
CheckRunLists == SeqsUpTo(CheckRuns, MaxRuns)

\* A call of commit_passed_checks about to be made.
InitChecks ==
    /\ application_table = <<>>
    /\ default_table = <<>>
    /\ memo = {}
    /\ inflight = <<>>
    /\ last \in { [op |-> "call", checks_regex |-> checks_regex,
                   check_runs |-> check_runs] :
                  checks_regex \in PatternLists, check_runs \in CheckRunLists }

\* commit_passed_checks applied to the patterns and the commit's check runs.
Evaluate ==
    /\ last.op = "call"
    /\ \E out \in {commit_passed_checks(last.checks_regex, last.check_runs)} :
          last' = [ op |-> "commit_passed_checks", checks_regex |-> last.checks_regex,
                    check_runs |-> last.check_runs, result |-> out.result,
                    log |-> out.log ]
    /\ UNCHANGED <<application_table, default_table, memo, inflight>>

NextChecks == Evaluate

SpecChecks == InitChecks /\ [][NextChecks]_vars

\* Check run j of the last call is matched by pattern i and is not completed
\* with success.
Fails(i, j) ==
    /\ re_match(last.checks_regex[i], last.check_runs[j].name)
    /\ ~( last.check_runs[j].status = "completed"
          /\ last.check_runs[j].conclusion = "success" )

\* Pattern i of the last call has a matched run that is not completed with success.
PatternFails(i) == \E j \in 1..Len(last.check_runs) : Fails(i, j)

\* The patterns the last call evaluated, in order.
Evaluated ==
    LET lines == SelectSeq(last.log, LAMBDA l : l[1] = "validating")
    IN  [i \in 1..Len(lines) |-> lines[i][2]]

\* C8: the call returns true exactly when no pattern has a matched run that
\* is not completed with success (a pattern without a matched run passes);
\* when it returns false it has evaluated the patterns up to the first one with
\* such a run and no later one, and the last run it inspected is the first
\* such run of that pattern.
C8_CommitPassedChecks ==
    last.op = "commit_passed_checks" =>
        /\ last.result = (\A i \in 1..Len(last.checks_regex) : ~PatternFails(i))
        /\ last.result => Evaluated = last.checks_regex
        /\ ~last.result =>
             \E i \in 1..Len(last.checks_regex), j \in 1..Len(last.check_runs) :
                /\ Fails(i, j)
                /\ \A h \in 1..(i - 1) : ~PatternFails(h)
                /\ \A h \in 1..(j - 1) : ~Fails(i, h)
                /\ Evaluated = SubSeq(last.checks_regex, 1, i)
                /\ last.log[Len(last.log)] =
                     log_line("failed", last.checks_regex[i], last.check_runs[j].name)
                /\ Len(SelectSeq(last.log, LAMBDA l : l[1] = "failed")) = 1

\* C8 happened with a short circuit: the first pattern failed on the first of
\* two matched runs, and the second pattern was left unevaluated.
C8_Witness ==
    /\ last.op = "commit_passed_checks"
    /\ ~last.result
    /\ Len(last.checks_regex) = 2
    /\ Len(last.check_runs) = 2
    /\ Len(Evaluated) = 1
    /\ Fails(1, 1)
    /\ re_match(last.checks_regex[1], last.check_runs[2].name)
    /\ PatternFails(2)

\* C8 happened with a vacuous pass: a pattern without any matched run, true returned.
C8_VacuousPass ==
    /\ last.op = "commit_passed_checks"
    /\ last.result
    /\ Len(last.checks_regex) = 2
    /\ Len(last.check_runs) = 2
    /\ \E i \in 1..2 : \A j \in 1..2 :
          ~re_match(last.checks_regex[i], last.check_runs[j].name)
    /\ \E i \in 1..2 : \E j \in 1..2 :
          re_match(last.checks_regex[i], last.check_runs[j].name)

\* ---------------------------------------------------------------- claims: one request

\* The documents of tbl stored under an identity key.
RecordsOf(tbl, key) ==
    SelectSeq(tbl, LAMBDA doc :
        <<doc.application_set_name, doc.repo, doc.branch>> = key)

\* What the last getparams request addresses and carries.
LastKey == key_of(derive(last.request))
LastSha ==
    IF last.request.sourceGeneratorType = SCM THEN last.request.data.sha
    ELSE last.request.data.head_sha
LastFingerprint == join(<<"+">>, <<LastSha>> \o last.request.checks_regex)
LastState == last.request.data

\* The last operation was a getparams request that found a record under its key.
ServedWithRecord == last.op = "getparams" /\ Len(RecordsOf(last.before, LastKey)) > 0

\* The last operation was a getparams request that found no record under its key.
ServedWithoutRecord == last.op = "getparams" /\ Len(RecordsOf(last.before, LastKey)) = 0

\* The last request called the CI checker once, and the checker returned result.
CheckerReturned(result) == Len(last.calls) = 1 /\ last.calls[1].result = result

OneParameterSet(state) == last.response = [status_code |-> 200, parameters |-> <<state>>]

\* C1: a request whose key has a record with the request's fingerprint is
\* answered with the request's own state, without a call of the CI checker
\* and without any change of the store.
C1_CacheHit ==
    ( /\ ServedWithRecord
      /\ \E i \in 1..Len(RecordsOf(last.before, LastKey)) :
            RecordsOf(last.before, LastKey)[i].last_known_good_sha = LastFingerprint )
    => /\ OneParameterSet(LastState)
       /\ last.calls = <<>>
       /\ application_table = last.before

\* C1 happened: a cache hit on a record whose stored state is not the request's.
C1_Witness ==
    /\ ServedWithRecord
    /\ RecordsOf(last.before, LastKey)[1].last_known_good_sha = LastFingerprint
    /\ RecordsOf(last.before, LastKey)[1].state # LastState
    /\ Len(last.before) = 2

\* C2: when the key has a record with another fingerprint and the checks
\* fail, the response is the stored state and the store is unchanged.
C2_FailWithRecord ==
    ( /\ ServedWithRecord
      /\ \A i \in 1..Len(RecordsOf(last.before, LastKey)) :
            RecordsOf(last.before, LastKey)[i].last_known_good_sha # LastFingerprint
      /\ CheckerReturned(FALSE) )
    => /\ OneParameterSet(RecordsOf(last.before, LastKey)[1].state)
       /\ application_table = last.before

\* C2 happened: the fallback returned a stored state that is not the request's.
C2_Witness ==
    /\ ServedWithRecord
    /\ CheckerReturned(FALSE)
    /\ RecordsOf(last.before, LastKey)[1].last_known_good_sha # None
    /\ RecordsOf(last.before, LastKey)[1].state # LastState
    /\ last.response.parameters = <<RecordsOf(last.before, LastKey)[1].state>>

\* C3: when the key has no record and the checks pass, the response is the
\* request's state, and the store then holds exactly one record under the key,
\* with that state and the fingerprint sha "+" checks.
C3_PassNoRecord ==
    (ServedWithoutRecord /\ CheckerReturned(TRUE))
    => /\ OneParameterSet(LastState)
       /\ Len(RecordsOf(application_table, LastKey)) = 1
       /\ RecordsOf(application_table, LastKey)[1].state = LastState
       /\ RecordsOf(application_table, LastKey)[1].last_known_good_sha = LastFingerprint

\* C3 happened: a record was created beside the record of another key, from a
\* request with two check patterns.
C3_Witness ==
    /\ ServedWithoutRecord
    /\ CheckerReturned(TRUE)
    /\ Len(last.before) = 1
    /\ Len(application_table) = 2
    /\ Len(last.request.checks_regex) = 2

\* C4: when the key has no record and the checks fail, the response has no
\* parameter set and the store is unchanged.
C4_FailNoRecord ==
    (ServedWithoutRecord /\ CheckerReturned(FALSE))
    => /\ last.response = [status_code |-> 200, parameters |-> <<>>]
       /\ application_table = last.before

\* C4 happened: the checks failed for a key without a record while another key
\* had one.
C4_Witness ==
    /\ ServedWithoutRecord
    /\ CheckerReturned(FALSE)
    /\ Len(last.before) = 1
    /\ last.response.parameters = <<>>

\* The store with the record(s) of one key taken out.
Others(tbl, key) ==
    SelectSeq(tbl, LAMBDA doc :
        <<doc.application_set_name, doc.repo, doc.branch>> # key)

\* C5: when the key has a record with another fingerprint and the checks
\* pass, that record gets the request's state and fingerprint, keeps its key
\* and its place, no record is added, and the response is the new state.
C5_PassWithRecord ==
    ( /\ ServedWithRecord
      /\ \A i \in 1..Len(RecordsOf(last.before, LastKey)) :
            RecordsOf(last.before, LastKey)[i].last_known_good_sha # LastFingerprint
      /\ CheckerReturned(TRUE) )
    => /\ OneParameterSet(LastState)
       /\ Len(application_table) = Len(last.before)
       /\ Others(application_table, LastKey) = Others(last.before, LastKey)
       /\ \A i \in 1..Len(application_table) :
            <<application_table[i].application_set_name, application_table[i].repo,
              application_table[i].branch>> = LastKey
            => application_table[i] =
                 [ application_set_name |-> last.before[i].application_set_name,
                   repo                 |-> last.before[i].repo,
                   branch               |-> last.before[i].branch,
                   state                |-> LastState,
                   last_known_good_sha  |-> LastFingerprint ]
       /\ Len(RecordsOf(application_table, LastKey)) = 1

\* C5 happened: a record with an earlier fingerprint and another state was
\* replaced while another key's record stood beside it.
C5_Witness ==
    /\ ServedWithRecord
    /\ CheckerReturned(TRUE)
    /\ RecordsOf(last.before, LastKey)[1].last_known_good_sha # None
    /\ RecordsOf(last.before, LastKey)[1].state # LastState
    /\ Len(last.before) = 2
    /\ RecordsOf(application_table, LastKey)[1].state = LastState

\* ---------------------------------------------------------------- claims: polling

\* The history's entry for the last request: same key, same sha, same checks.
Remembered ==
    { m \in last.remembered :
        /\ m.key = LastKey
        /\ m.sha = LastSha
        /\ m.checks_regex = last.request.checks_regex }

\* C9: a request whose key, sha and check list are those of the latest request
\* of that key that took the checks-pass path is answered without a call of
\* the CI checker, whatever failing requests of that key and requests of other
\* keys came in between.
C9_Memoized ==
    (last.op = "getparams" /\ Remembered # {})
    => /\ last.calls = <<>>
       /\ OneParameterSet(LastState)

\* C9 happened: a memoized answer after a failing request of the same key and
\* a request of another key, for a request whose state is not the stored one.
C9_Witness ==
    /\ last.op = "getparams"
    /\ \E m \in Remembered : m.failed_since /\ m.others_since
    /\ last.calls = <<>>
    /\ RecordsOf(application_table, LastKey)[1].state # LastState

\* The record the store holds for the history's entry m.
LastGood(m) ==
    [ application_set_name |-> m.key[1],
      repo                 |-> m.key[2],
      branch               |-> m.key[3],
      state                |-> m.state,
      last_known_good_sha  |-> sha_check_fingerprint(m.sha, m.checks_regex) ]

\* C13: after any sequence of requests from an empty store, a key has a record
\* exactly when a request of that key took the checks-pass path, and the record
\* holds the state and the fingerprint of the most recent such request; a
\* request answered on the cache-hit or the checks-fail path leaves the store
\* as it was; and the checks-fail fallback answers with the state of that most
\* recent checks-pass request, whatever states cache hits returned since.
C13_LastGood ==
    /\ \A m \in memo : RecordsOf(application_table, m.key) = <<LastGood(m)>>
    /\ \A i \in 1..Len(application_table) :
          \E m \in memo : application_table[i] = LastGood(m)
    /\ (last.op = "getparams" /\ last.path \in {"cache-hit", "checks-fail"})
          => application_table = last.before
    /\ (last.op = "getparams" /\ last.path = "checks-fail")
          => \A m \in last.remembered :
                m.key = LastKey => OneParameterSet(m.state)

\* C13 happened: a request failed its checks and was answered with the state
\* of the latest checks-pass request of its key (an scm request), after a
\* cache hit of that key and organization (a pr request) had been answered
\* with another state; the failing request's own state is not the one returned.
C13_Witness ==
    /\ last.op = "getparams"
    /\ last.path = "checks-fail"
    /\ \E m \in last.remembered :
          /\ m.key = LastKey
          /\ \E state \in m.hit_states :
                /\ state # m.state
                /\ state.branch = m.state.branch
                /\ "repoURL" \in DOMAIN state
                /\ "organization" \in DOMAIN m.state
                /\ pr_organization(state.repoURL) = m.state.organization
          /\ m.state # LastState
          /\ OneParameterSet(m.state)
          /\ RecordsOf(application_table, LastKey) = <<LastGood(m)>>

\* ---------------------------------------------------------------- claims: the store

\* C7: create_application on a key that has a record raises and changes
\* nothing; update_application on a key that has no record raises and changes
\* nothing.
C7_FailClosed ==
    /\ ( /\ last.op = "create_application"
         /\ Len(RecordsOf(last.before, last.key)) > 0 )
       => last.error # "none" /\ application_table = last.before
    /\ ( /\ last.op = "update_application"
         /\ Len(RecordsOf(last.before, last.key)) = 0 )
       => last.error # "none" /\ application_table = last.before

\* C7 happened: an update of a key without a record was refused while the
\* store held a record of another key.
C7_Witness ==
    /\ last.op = "update_application"
    /\ Len(RecordsOf(last.before, last.key)) = 0
    /\ Len(last.before) = 1
    /\ last.error = "NotFound"

\* C7 also happened for create: a create on a key whose record holds another
\* state was refused.
C7_CreateRefused ==
    /\ last.op = "create_application"
    /\ Len(RecordsOf(last.before, last.key)) = 1
    /\ RecordsOf(last.before, last.key)[1].state # last.state
    /\ last.error = "AlreadyExists"


\* ---------------------------------------------------------------- claims: the create race

Concluded == { w \in Workers : /\ inflight[w].pc = "done"
                               /\ "checks_result" \in DOMAIN inflight[w] }

\* The workers that found no record at their lookup, got true from the checker
\* and have finished.
Racers == { w \in Concluded : /\ inflight[w].application_data = <<>>
                              /\ inflight[w].checks_result }

\* The workers that found a record, got true from the checker and have finished.
Updaters == { w \in Concluded : /\ inflight[w].application_data # <<>>
                                /\ inflight[w].checks_result }

Winners == { w \in Racers :
                inflight[w].response = response(<<Derived[inflight[w].request].state>>) }

\* C11: when two (or more) requests for a key the store has never seen all
\* looked the key up before any of them wrote, and all got true from the CI
\* checker, exactly one of them created the record and was answered with its
\* own state; every other one ended with the AlreadyExists error of
\* create_application and no parameters; and the store holds exactly one
\* record for the key, with the winner's state and the winner's fingerprint.
C11_CreateRace ==
    (Cardinality(Racers) >= 2 /\ Updaters = {}) =>
        /\ Cardinality(Winners) = 1
        /\ \A w \in Racers \ Winners :
              inflight[w].response = server_error("AlreadyExists")
        /\ \A w \in Winners :
              \E c \in {Derived[inflight[w].request]} :
                  /\ RecordsOf(application_table, key_of(c)) =
                        << [ application_set_name |-> c.application_set_name,
                             repo                 |-> c.repository,
                             branch               |-> c.branch,
                             state                |-> c.state,
                             last_known_good_sha  |-> c.sha_check_fingerprint ] >>
                  /\ Len(application_table) = 1

\* C11 happened with two different requests: worker 2 created the record,
\* worker 1 lost with another state and another fingerprint, and the record
\* is not worker 1's.
C11_Witness ==
    /\ Racers = {1, 2}
    /\ Winners = {2}
    /\ inflight[1].response = server_error("AlreadyExists")
    /\ Derived[inflight[1].request].state # Derived[inflight[2].request].state
    /\ Derived[inflight[1].request].sha_check_fingerprint #
          Derived[inflight[2].request].sha_check_fingerprint
    /\ Len(application_table) = 1
    /\ application_table[1].state = Derived[inflight[2].request].state


\* ---------------------------------------------------------------- claims: the cache

\* C12: a request is answered on the cache-hit path only if an earlier request
\* with the same organization, repository, sha and ordered list of check
\* patterns called the CI checker and got true.
C12_CacheSound ==
    (last.op = "getparams" /\ last.path = "cache-hit") =>
        asked(last.request) \in last.remembered

====
